---- MODULE Spec2Model ----
(***************************************************************************)
(* Telegram expense tracker (ExpenseTrackerPython_v4.py): the two sheets   *)
(* of the ledger, the handlers of the bot and the replies they send.       *)
(* Text is a sequence of one-character strings, so that lower(), split(),  *)
(* join(), title(), int() and float() are computed and not assumed.        *)
(* Amounts are whole rupees; an ISO date string YYYY-MM-DD is the number   *)
(* YYYYMMDD.                                                               *)
(***************************************************************************)
EXTENDS Integers, Sequences, FiniteSets, TLC

VARIABLES expenses_ws, salary_ws, today, update, reply, store_log

vars == <<expenses_ws, salary_ws, today, update, reply, store_log>>

\* ------------------------------------------------------------------ bounds
\* Rows the two sheets hold together before the appending handlers stop.
MaxRows == 2

\* ------------------------------------------------------------ str methods
UpperChars ==
    <<"A","B","C","D","E","F","G","H","I","J","K","L","M",
      "N","O","P","Q","R","S","T","U","V","W","X","Y","Z">>

LowerChars ==
    <<"a","b","c","d","e","f","g","h","i","j","k","l","m",
      "n","o","p","q","r","s","t","u","v","w","x","y","z">>

DigitChars == <<"0","1","2","3","4","5","6","7","8","9">>

IsUpper(c) == \E i \in DOMAIN UpperChars : UpperChars[i] = c

IsLower(c) == \E i \in DOMAIN LowerChars : LowerChars[i] = c

IsDigit(c) == \E i \in DOMAIN DigitChars : DigitChars[i] = c

IsCased(c) == IsUpper(c) \/ IsLower(c)

lower_char(c) ==
    IF IsUpper(c) THEN LowerChars[CHOOSE i \in DOMAIN UpperChars : UpperChars[i] = c]
    ELSE c

upper_char(c) ==
    IF IsLower(c) THEN UpperChars[CHOOSE i \in DOMAIN LowerChars : LowerChars[i] = c]
    ELSE c

\* str.lower()
Lower(s) == [i \in 1..Len(s) |-> lower_char(s[i])]

\* str.title(): a cased character is upper-cased after an uncased one (or at
\* the start) and lower-cased after a cased one.
Title(s) ==
    [i \in 1..Len(s) |->
        IF i > 1 /\ IsCased(s[i-1]) THEN lower_char(s[i]) ELSE upper_char(s[i])]

\* Index of the first sep in s, or Len(s)+1.
find_char(s, sep) ==
    IF \E i \in 1..Len(s) : s[i] = sep
    THEN CHOOSE i \in 1..Len(s) : s[i] = sep /\ \A j \in 1..(i-1) : s[j] # sep
    ELSE Len(s) + 1

\* str.split(): on runs of whitespace, no empty tokens.
RECURSIVE split(_)
split(s) ==
    IF s = <<>> THEN <<>>
    ELSE IF s[1] = " " THEN split(Tail(s))
    ELSE LET n == find_char(s, " ")
         IN  <<SubSeq(s, 1, n - 1)>> \o split(SubSeq(s, n, Len(s)))

\* str.split(sep) for a one-character sep: empty fields are kept.
RECURSIVE split_on(_, _)
split_on(s, sep) ==
    LET n == find_char(s, sep)
    IN  IF n > Len(s) THEN <<s>>
        ELSE <<SubSeq(s, 1, n - 1)>> \o split_on(SubSeq(s, n + 1, Len(s)), sep)

\* ' '.join(parts)
RECURSIVE join(_)
join(parts) ==
    IF parts = <<>> THEN <<>>
    ELSE IF Len(parts) = 1 THEN parts[1]
    ELSE parts[1] \o <<" ">> \o join(Tail(parts))

\* str.strip()
RECURSIVE strip(_)
strip(s) ==
    IF s = <<>> THEN s
    ELSE IF s[1] = " " THEN strip(Tail(s))
    ELSE IF s[Len(s)] = " " THEN strip(SubSeq(s, 1, Len(s) - 1))
    ELSE s

digit_value(c) == (CHOOSE i \in DOMAIN DigitChars : DigitChars[i] = c) - 1

RECURSIVE digits_value(_)
digits_value(s) ==
    IF s = <<>> THEN 0
    ELSE 10 * digits_value(SubSeq(s, 1, Len(s) - 1)) + digit_value(s[Len(s)])

all_digits(s) == s # <<>> /\ \A i \in 1..Len(s) : IsDigit(s[i])

has_sign(s) == s # <<>> /\ s[1] \in {"-", "+"}

\* int(s) / float(s) succeed: an optional sign and decimal digits (the literals
\* of the messages modelled; no fraction, exponent, inf or nan among them).
is_number(s) == all_digits(IF has_sign(s) THEN Tail(s) ELSE s)

\* The value int(s) / float(s) returns.
number_value(s) ==
    IF has_sign(s)
    THEN (IF s[1] = "-" THEN 0 - digits_value(Tail(s)) ELSE digits_value(Tail(s)))
    ELSE digits_value(s)

\* --------------------------------------------------------------- datetime
is_leap(y) == (y % 4 = 0 /\ y % 100 # 0) \/ y % 400 = 0

days_in_month(y, m) ==
    IF m = 2 THEN (IF is_leap(y) THEN 29 ELSE 28)
    ELSE IF m \in {4, 6, 9, 11} THEN 30 ELSE 31

\* datetime(year, month, day) does not raise ValueError.
valid_date_lenient(y, m, d) == m \in 1..12 /\ d \in 1..31

valid_date(y, m, d) == m \in 1..12 /\ d >= 1 /\ d <= days_in_month(y, m)

\* date.strftime("%Y-%m-%d"), as the number YYYYMMDD.
strftime_iso(dt) == dt.y * 10000 + dt.m * 100 + dt.d

\* pd.to_datetime of an ISO date string.
to_datetime(iso) == [y |-> iso \div 10000, m |-> (iso \div 100) % 100, d |-> iso % 100]

\* Series.dt.to_period('M'): the calendar month of a year.
to_period_M_month_only(dt) == <<dt.m>>

to_period_M(dt) == <<dt.y, dt.m>>

\* ------------------------------------------------------------------ store
Cash == <<"C","a","s","h">>

UPI == <<"U","P","I">>

Card == <<"C","a","r","d">>

BankTransfer == <<"B","a","n","k"," ","T","r","a","n","s","f","e","r">>

Other == <<"O","t","h","e","r">>

PAYMENT_METHODS == <<Cash, UPI, Card, BankTransfer, Other>>

MonthlySalary == <<"M","o","n","t","h","l","y"," ","S","a","l","a","r","y">>

\* One row of the Expenses sheet, keyed by the sheet's headers.
expense_row(date, category, amount, description, payment_method) ==
    [Date |-> date, Category |-> category, Amount |-> amount,
     Description |-> description, Payment |-> payment_method]

\* One row of the Salary sheet.
salary_row(date, amount, description) ==
    [Date |-> date, Amount |-> amount, Description |-> description]

\* Worksheet.append_row when the store accepts it (a refused append raises
\* and writes nothing).
append_row_first(ws, row) == <<row>> \o ws

append_row(ws, row) == Append(ws, row)

\* Worksheet.get_all_records when the store answers: the rows in sheet order.
get_all_records(ws) == ws

\* The store calls a handler made, in order, when its failAt-th call raises
\* (failAt = 0: none does): the calls before it succeed, the ones after it
\* are never made.
store_calls(planned, failAt) ==
    [i \in 1..(IF failAt \in 1..Len(planned) THEN failAt ELSE Len(planned)) |->
        [op |-> planned[i][1], sheet |-> planned[i][2], ok |-> i # failAt]]

AppendExpenses == <<"append_row", "Expenses">>

AppendSalary == <<"append_row", "Salary">>

ReadExpenses == <<"get_all_records", "Expenses">>

ReadSalary == <<"get_all_records", "Salary">>

\* ------------------------------------------------------------- aggregator
\* Series.sum() of the amount column.
RECURSIVE amount_sum(_)
amount_sum(rows) ==
    IF rows = <<>> THEN 0
    ELSE amount_sum(SubSeq(rows, 1, Len(rows) - 1)) + rows[Len(rows)].Amount

\* The balance of a stale read: the newest expense row is missing.
balance_without_last(salary, expenses) ==
    amount_sum(salary) - amount_sum(SubSeq(expenses, 1, Len(expenses) - 1))

\* calculate_balance over what the two reads returned.
calculate_balance(salary, expenses) ==
    LET salary_data == get_all_records(salary)
        total_salary == IF salary_data # <<>> THEN amount_sum(salary_data) ELSE 0
        expense_data == get_all_records(expenses)
        total_expenses == IF expense_data # <<>> THEN amount_sum(expense_data) ELSE 0
    IN  total_salary - total_expenses

\* df[df['Date'].dt.to_period('M') == now.to_period('M')]
current_month_rows(expenses, now) ==
    LET same_month(r) == to_period_M(to_datetime(r.Date)) = to_period_M(now)
    IN  SelectSeq(get_all_records(expenses), same_month)

\* df[df['Date'].dt.year == current_year]
current_year_rows(expenses, now) ==
    LET same_year(r) == to_datetime(r.Date).y = now.y
    IN  SelectSeq(get_all_records(expenses), same_year)

\* df[df['Date'] == today]
today_rows(expenses, now) ==
    LET same_day(r) == to_datetime(r.Date) = now
    IN  SelectSeq(get_all_records(expenses), same_day)

\* df.groupby(col)['Amount'].sum(): one pass over the rows in sheet order.
RECURSIVE groupby_sum(_, _)
groupby_sum(rows, col) ==
    IF rows = <<>> THEN <<>>
    ELSE LET acc == groupby_sum(SubSeq(rows, 1, Len(rows) - 1), col)
             r == rows[Len(rows)]
         IN  IF r[col] \in DOMAIN acc
             THEN [acc EXCEPT ![r[col]] = @ + r.Amount]
             ELSE [k \in DOMAIN acc \cup {r[col]} |->
                      IF k = r[col] THEN r.Amount ELSE acc[k]]

\* Series.sum() of a grouping.
RECURSIVE series_sum(_)
series_sum(g) ==
    IF DOMAIN g = {} THEN 0
    ELSE LET k == CHOOSE x \in DOMAIN g : TRUE
         IN  g[k] + series_sum([x \in DOMAIN g \ {k} |-> g[x]])

\* ----------------------------------------------------------------- replies
\* What reply_text / reply_photo sends; kind "none" is no reply at all.
Reply(kind) ==
    [kind |-> kind, date |-> 0, category |-> <<>>, amount |-> 0,
     description |-> <<>>, payment |-> <<>>, balance |-> 0,
     by_category |-> <<>>, by_payment |-> <<>>, yearly_by_category |-> <<>>,
     monthly_total |-> 0, yearly_total |-> 0, rows |-> <<>>, total |-> 0]

\* What a handler leaves behind: the two sheets, the reply, the store calls.
Result(expenses, salary, r, log) ==
    [expenses_ws |-> expenses, salary_ws |-> salary, reply |-> r, store_log |-> log]

\* ------------------------------------------------------------------ parser
Via == <<"v","i","a">>

\* The for/else over PAYMENT_METHODS: the break is outside the if, so the loop
\* ends after its first candidate and the else branch runs only for an empty
\* list; a phrase that is not the first candidate keeps the default.
match_payment_method(raw, default) ==
    IF PAYMENT_METHODS = <<>> THEN Other
    ELSE IF Lower(raw) = Lower(PAYMENT_METHODS[1]) THEN PAYMENT_METHODS[1]
    ELSE default

\* The payment method and the tokens left of `via`.
parse_payment(parts) ==
    IF \E i \in DOMAIN parts : parts[i] = Via
    THEN LET via_index == CHOOSE i \in DOMAIN parts :
                              parts[i] = Via /\ \A j \in 1..(i-1) : parts[j] # Via
             payment_method_raw ==
                 strip(join(SubSeq(parts, via_index + 1, Len(parts))))
         IN  [payment_method |-> match_payment_method(payment_method_raw, Cash),
              parts |-> SubSeq(parts, 1, via_index - 1)]
    ELSE [payment_method |-> Cash, parts |-> parts]

\* The date of a non-empty token list: exc is "" (a date, and the tokens
\* left), "ValueError" (int() raised, outside the inner try) or "InvalidDate"
\* (datetime() raised, inside it).
parse_date(parts, now) ==
    LET fields == split_on(parts[1], "/")
    IN  IF (\E i \in DOMAIN parts[1] : parts[1][i] = "/") /\ Len(fields) = 2
        THEN IF ~(is_number(fields[1]) /\ is_number(fields[2]))
             THEN [exc |-> "ValueError", date |-> now, parts |-> parts]
             ELSE LET day == number_value(fields[1])
                      month == number_value(fields[2])
                  IN  IF valid_date(now.y, month, day)
                      THEN [exc |-> "", date |-> [y |-> now.y, m |-> month, d |-> day],
                            parts |-> Tail(parts)]
                      ELSE [exc |-> "InvalidDate", date |-> now, parts |-> parts]
        ELSE [exc |-> "", date |-> now, parts |-> parts]

\* ---------------------------------------------------------------- handlers
\* The outer `except Exception` of handle_message: the error and the format.
message_except(expenses, salary, log) ==
    Result(expenses, salary, Reply("error_format"), log)

\* handle_message: text is the message, now is datetime.now(), failAt the store
\* call that raises.
handle_message(text, now, expenses, salary, failAt) ==
    LET message == Lower(text)
        pay == parse_payment(split(message))
    IN
    IF pay.parts = <<>> THEN message_except(expenses, salary, <<>>)
    ELSE
    LET dt == parse_date(pay.parts, now)
        parts == dt.parts
    IN
    IF dt.exc = "InvalidDate"
    THEN Result(expenses, salary, Reply("invalid_date"), <<>>)
    ELSE IF dt.exc = "ValueError" THEN message_except(expenses, salary, <<>>)
    ELSE IF Len(parts) < 2 THEN message_except(expenses, salary, <<>>)
    ELSE IF ~is_number(parts[2])
    THEN Result(expenses, salary, Reply("invalid_amount"), <<>>)
    ELSE
    LET category == Title(parts[1])
        amount == number_value(parts[2])
        description == IF Len(parts) > 2 THEN join(SubSeq(parts, 3, Len(parts))) ELSE <<>>
        row == expense_row(strftime_iso(dt.date), category, amount, description,
                           pay.payment_method)
        log == store_calls(<<AppendExpenses, ReadSalary, ReadExpenses>>, failAt)
        appended == append_row(expenses, row)
    IN
    IF failAt = 1 THEN message_except(expenses, salary, log)
    ELSE IF failAt \in {2, 3} THEN message_except(appended, salary, log)
    ELSE Result(appended, salary,
                [Reply("expense_added") EXCEPT
                    !.date = strftime_iso(dt.date), !.category = category,
                    !.amount = amount, !.payment = pay.payment_method,
                    !.balance = calculate_balance(salary, appended)],
                log)

\* The `except Exception` of add_salary.
salary_except_as_success(expenses, salary, log) ==
    Result(expenses, salary, Reply("salary_added"), log)

salary_except(expenses, salary, log) ==
    Result(expenses, salary, Reply("error"), log)

\* add_salary: args is context.args.
add_salary(args, now, expenses, salary, failAt) ==
    IF args = <<>> THEN Result(expenses, salary, Reply("usage"), <<>>)
    ELSE IF ~is_number(args[1])
    THEN Result(expenses, salary, Reply("invalid_amount"), <<>>)
    ELSE
    LET amount == number_value(args[1])
        description == IF Len(args) > 1 THEN join(Tail(args)) ELSE MonthlySalary
        row == salary_row(strftime_iso(now), amount, description)
        log == store_calls(<<AppendSalary, ReadSalary, ReadExpenses>>, failAt)
        appended == append_row(salary, row)
    IN
    IF failAt = 1 THEN salary_except(expenses, salary, log)
    ELSE IF failAt \in {2, 3} THEN salary_except(expenses, appended, log)
    ELSE Result(expenses, appended,
                [Reply("salary_added") EXCEPT
                    !.amount = amount, !.description = description,
                    !.balance = calculate_balance(appended, expenses)],
                log)

\* show_balance: no try around the three reads, so a read that raises leaves
\* the handler with no reply.
show_balance(now, expenses, salary, failAt) ==
    LET log == store_calls(<<ReadSalary, ReadExpenses, ReadExpenses>>, failAt)
        monthly_expenses == current_month_rows(expenses, now)
    IN
    IF failAt \in 1..3 THEN Result(expenses, salary, Reply("none"), log)
    ELSE Result(expenses, salary,
                [Reply("summary") EXCEPT
                    !.balance = calculate_balance(salary, expenses),
                    !.by_category = groupby_sum(monthly_expenses, "Category"),
                    !.by_payment = groupby_sum(monthly_expenses, "Payment")],
                log)

\* generate_report
generate_report(now, expenses, salary, failAt) ==
    LET log == store_calls(<<ReadExpenses>>, failAt)
        monthly_by_category == groupby_sum(current_month_rows(expenses, now), "Category")
        yearly_by_category == groupby_sum(current_year_rows(expenses, now), "Category")
    IN
    IF failAt = 1 THEN Result(expenses, salary, Reply("error_report"), log)
    ELSE IF get_all_records(expenses) = <<>>
    THEN Result(expenses, salary, Reply("no_expenses"), log)
    ELSE Result(expenses, salary,
                [Reply("report") EXCEPT
                    !.by_category = monthly_by_category,
                    !.yearly_by_category = yearly_by_category,
                    !.monthly_total = IF DOMAIN monthly_by_category # {}
                                      THEN series_sum(monthly_by_category) ELSE 0,
                    !.yearly_total = IF DOMAIN yearly_by_category # {}
                                     THEN series_sum(yearly_by_category) ELSE 0],
                log)

\* show_today_expenses
show_today_expenses(now, expenses, salary, failAt) ==
    LET log == store_calls(<<ReadExpenses>>, failAt)
        today_expenses == today_rows(expenses, now)
    IN
    IF failAt = 1 THEN Result(expenses, salary, Reply("error"), log)
    ELSE IF get_all_records(expenses) = <<>>
    THEN Result(expenses, salary, Reply("no_expenses"), log)
    ELSE IF today_expenses # <<>>
    THEN Result(expenses, salary,
                [Reply("today") EXCEPT
                    !.rows = today_expenses, !.total = amount_sum(today_expenses)],
                log)
    ELSE Result(expenses, salary, Reply("no_today"), log)

\* payment_method_report
payment_method_report(now, expenses, salary, failAt) ==
    LET log == store_calls(<<ReadExpenses>>, failAt)
    IN
    IF failAt = 1 THEN Result(expenses, salary, Reply("error"), log)
    ELSE IF get_all_records(expenses) = <<>>
    THEN Result(expenses, salary, Reply("no_expenses"), log)
    ELSE Result(expenses, salary,
                [Reply("payments") EXCEPT
                    !.by_payment = groupby_sum(get_all_records(expenses), "Payment")],
                log)

\* ------------------------------------------------------------------ inputs
\* The expense messages sent to the bot.
msg_basic == <<"f","o","o","d"," ","2","5","0"," ","l","u","n","c","h">>  \* food 250 lunch

msg_dated == <<"1","5","/","0","5"," ","f","o","o","d"," ","2","5","0"," ","l","u","n","c","h">>  \* 15/05 food 250 lunch

msg_via_upi == <<"f","o","o","d"," ","2","5","0"," ","l","u","n","c","h"," ","v","i","a"," ","U","P","I">>  \* food 250 lunch via UPI

msg_via_xyz == <<"f","o","o","d"," ","2","5","0"," ","l","u","n","c","h"," ","v","i","a"," ","X","Y","Z">>  \* food 250 lunch via XYZ

msg_via_bank == <<"r","e","n","t"," ","1","0","0"," ","v","i","a"," ","b","a","n","k"," ","t","r","a","n","s","f","e","r">>  \* rent 100 via bank transfer

msg_bad_date == <<"3","1","/","0","2"," ","f","o","o","d"," ","1","0","0">>  \* 31/02 food 100

msg_bad_amount == <<"f","o","o","d"," ","a","b","c"," ","d","e","s","c">>  \* food abc desc

msg_no_amount == <<"f","o","o","d">>  \* food

msg_no_category == <<"v","i","a"," ","u","p","i">>  \* via upi

msg_date_only == <<"1","5","/","0","5">>  \* 15/05

msg_slash == <<"f","o","o","d","/","d","r","i","n","k"," ","5","0">>  \* food/drink 50

msg_negative == <<"f","o","o","d"," ","-","5">>  \* food -5

msg_leap == <<"2","9","/","0","2"," ","t","e","a"," ","1","0">>  \* 29/02 tea 10

msg_other_month == <<"3","1","/","1","2"," ","r","e","n","t"," ","1","0","0">>  \* 31/12 rent 100

msg_other_day == <<"1","6","/","0","5"," ","f","o","o","d"," ","2","5","0"," ","l","u","n","c","h">>  \* 16/05 food 250 lunch

Messages ==
    {msg_basic, msg_dated, msg_via_upi, msg_via_xyz,
     msg_via_bank, msg_bad_date, msg_bad_amount,
     msg_no_amount, msg_no_category, msg_date_only, msg_slash,
     msg_negative, msg_leap, msg_other_month,
     msg_other_day}

\* The argument lists of /addsalary.
SalaryArgs ==
    {<<>>, <<<<"1","0","0","0">>>>, <<<<"a","b","c">>>>, <<<<"0">>>>}

\* The dates datetime.now() takes, in order: the same day of two years, the
\* first a leap year.
Clock == <<[y |-> 2024, m |-> 5, d |-> 15], [y |-> 2025, m |-> 5, d |-> 15]>>

\* ------------------------------------------------------------------- state
Update(handler, text, args, now) ==
    [handler |-> handler, text |-> text, args |-> args, now |-> now]

Init ==
    /\ expenses_ws = <<>>
    /\ salary_ws = <<>>
    /\ today = Clock[1]
    /\ update = Update("none", <<>>, <<>>, Clock[1])
    /\ reply = Reply("none")
    /\ store_log = <<>>

\* A handler ran to its end on update u with result res.
Handled(u, res) ==
    /\ expenses_ws' = res.expenses_ws
    /\ salary_ws' = res.salary_ws
    /\ reply' = res.reply
    /\ store_log' = res.store_log
    /\ update' = u
    /\ today' = today

Full == Len(expenses_ws) + Len(salary_ws) >= MaxRows

\* Time passes between two updates.
Tick ==
    /\ \E i \in 1..(Len(Clock) - 1) : today = Clock[i] /\ today' = Clock[i + 1]
    /\ UNCHANGED <<expenses_ws, salary_ws, update, reply, store_log>>

\* /start and /help
Start ==
    Handled(Update("start", <<>>, <<>>, today),
            Result(expenses_ws, salary_ws, Reply("help"), <<>>))

HandleMessage ==
    /\ ~Full
    /\ \E text \in Messages, failAt \in 0..3 :
          Handled(Update("handle_message", text, <<>>, today),
                  handle_message(text, today, expenses_ws, salary_ws, failAt))

AddSalary ==
    /\ ~Full
    /\ \E args \in SalaryArgs, failAt \in 0..3 :
          Handled(Update("add_salary", <<>>, args, today),
                  add_salary(args, today, expenses_ws, salary_ws, failAt))

ShowBalance ==
    \E failAt \in 0..3 :
        Handled(Update("show_balance", <<>>, <<>>, today),
                show_balance(today, expenses_ws, salary_ws, failAt))

GenerateReport ==
    \E failAt \in 0..1 :
        Handled(Update("generate_report", <<>>, <<>>, today),
                generate_report(today, expenses_ws, salary_ws, failAt))

ShowTodayExpenses ==
    \E failAt \in 0..1 :
        Handled(Update("show_today_expenses", <<>>, <<>>, today),
                show_today_expenses(today, expenses_ws, salary_ws, failAt))

PaymentMethodReport ==
    \E failAt \in 0..1 :
        Handled(Update("payment_method_report", <<>>, <<>>, today),
                payment_method_report(today, expenses_ws, salary_ws, failAt))

Next ==
    \/ Tick
    \/ Start
    \/ HandleMessage
    \/ AddSalary
    \/ ShowBalance
    \/ GenerateReport
    \/ ShowTodayExpenses
    \/ PaymentMethodReport

Spec == Init /\ [][Next]_vars

\* ------------------------------------------------------------------ claims
\* What the store did during the last handler.
AppendOkIn(log) == \E i \in DOMAIN log : log[i].op = "append_row" /\ log[i].ok

AppendFailedIn(log) == \E i \in DOMAIN log : log[i].op = "append_row" /\ ~log[i].ok

NoStoreFault(log) == \A i \in DOMAIN log : log[i].ok

\* new is old plus one row at its end.
Extends(new, old) == Len(new) = Len(old) + 1 /\ SubSeq(new, 1, Len(old)) = old

\* The sum of the amounts of the rows at the indices idx, in no order.
RECURSIVE SumOver(_, _)
SumOver(rows, idx) ==
    IF idx = {} THEN 0
    ELSE LET i == CHOOSE x \in idx : TRUE
         IN  rows[i].Amount + SumOver(rows, idx \ {i})

SuccessReplies == {"expense_added", "salary_added"}

\* The payment method a phrase names: the member of PAYMENT_METHODS equal to it
\* up to case, or Other.
canonical_payment_method(raw) ==
    IF \E i \in DOMAIN PAYMENT_METHODS : Lower(raw) = Lower(PAYMENT_METHODS[i])
    THEN PAYMENT_METHODS[CHOOSE i \in DOMAIN PAYMENT_METHODS :
                             Lower(raw) = Lower(PAYMENT_METHODS[i])]
    ELSE Other

claimed_payment_method(text) ==
    LET parts == split(text)
    IN  IF \E i \in DOMAIN parts : Lower(parts[i]) = Via
        THEN LET v == CHOOSE i \in DOMAIN parts :
                          Lower(parts[i]) = Via /\ \A j \in 1..(i-1) : Lower(parts[j]) # Via
             IN  canonical_payment_method(join(SubSeq(parts, v + 1, Len(parts))))
        ELSE Cash

\* C1: the payment method written to the Expenses row is Cash without `via`,
\* else the canonically-cased member of PAYMENT_METHODS that the phrase after
\* `via` equals up to case, else Other.
C1_PaymentMethodWritten ==
    (update.handler = "handle_message" /\ AppendOkIn(store_log))
        => expenses_ws[Len(expenses_ws)].Payment = claimed_payment_method(update.text)

\* C2: every row of the Expenses sheet and of the Salary sheet has amount > 0.
C2_AmountsPositive ==
    /\ \A i \in DOMAIN expenses_ws : expenses_ws[i].Amount > 0
    /\ \A i \in DOMAIN salary_ws : salary_ws[i].Amount > 0

\* C3: the balance a reply shows is the sum of all Salary amounts minus the sum
\* of all Expenses amounts of the whole ledger, the row just appended included,
\* with no date window; it is 0 for an empty ledger.
C3_BalanceIsWholeLedger ==
    reply.kind \in {"expense_added", "salary_added", "summary"}
        => reply.balance = SumOver(salary_ws, DOMAIN salary_ws)
                           - SumOver(expenses_ws, DOMAIN expenses_ws)

C3_Witness ==
    /\ reply.kind = "expense_added"
    /\ Len(salary_ws) = 1 /\ Len(expenses_ws) = 1
    /\ reply.balance = 750

\* The messages that do not parse: an impossible DD/MM date (29/02 outside a
\* leap year too), no category token, a missing or a non-numeric amount.
ParseFailure(text, now) ==
    \/ text \in {msg_bad_date, msg_bad_amount, msg_no_amount,
                 msg_no_category, msg_date_only}
    \/ text = msg_leap /\ ~is_leap(now.y)

\* C4: an expense message that fails to parse appends no row to either sheet
\* (the store is not called), gets a corrective reply, and the handler does not
\* raise.
C4_ParseFailureLeavesLedger ==
    [][(today' = today /\ update'.handler = "handle_message"
           /\ ParseFailure(update'.text, update'.now))
        => /\ expenses_ws' = expenses_ws
           /\ salary_ws' = salary_ws
           /\ store_log' = <<>>
           /\ reply'.kind \in {"invalid_date", "invalid_amount", "error_format"}]_vars

C4_Witness ==
    /\ update.handler = "handle_message"
    /\ update.text = msg_leap /\ update.now.y = 2025
    /\ reply.kind = "invalid_date"
    /\ Len(expenses_ws) >= 1

\* C5: when the store refuses the append of an expense or salary row, no row is
\* persisted and the reply is a failure notice; a success confirmation is sent
\* only after the store accepted the append of the row it confirms.
C5_FailedAppendIsReported ==
    [][/\ AppendFailedIn(store_log')
           => /\ expenses_ws' = expenses_ws
              /\ salary_ws' = salary_ws
              /\ reply'.kind \in {"error", "error_format", "invalid_amount"}
       /\ reply'.kind \in SuccessReplies
           => /\ AppendOkIn(store_log')
              /\ reply'.kind = "expense_added"
                    => /\ expenses_ws' # <<>>
                       /\ expenses_ws'[Len(expenses_ws')].Amount = reply'.amount
                       /\ expenses_ws'[Len(expenses_ws')].Category = reply'.category
              /\ reply'.kind = "salary_added"
                    => /\ salary_ws' # <<>>
                       /\ salary_ws'[Len(salary_ws')].Amount = reply'.amount]_vars

C5_Witness ==
    /\ update.handler = "add_salary"
    /\ AppendFailedIn(store_log)
    /\ reply.kind = "error"
    /\ salary_ws = <<>>

\* C6: every inbound message or command ends with a reply, also when a store
\* read or append fails during its handling.
C6_EveryUpdateIsAnswered == update.handler # "none" => reply.kind # "none"

ReadOnlyHandlers ==
    {"start", "show_balance", "generate_report", "show_today_expenses",
     "payment_method_report"}

\* C7: the ledger is append-only: a step leaves both sheets unchanged or extends
\* one sheet by one row at its end; an expense message whose append the store
\* accepts adds one row to Expenses only, an /addsalary one row to Salary only,
\* and the other commands change neither sheet.
C7_AppendOnly ==
    [][/\ \/ expenses_ws' = expenses_ws /\ salary_ws' = salary_ws
          \/ Extends(expenses_ws', expenses_ws) /\ salary_ws' = salary_ws
          \/ expenses_ws' = expenses_ws /\ Extends(salary_ws', salary_ws)
       /\ today' = today
           => /\ update'.handler = "handle_message"
                  => /\ salary_ws' = salary_ws
                     /\ IF AppendOkIn(store_log')
                        THEN Extends(expenses_ws', expenses_ws)
                        ELSE expenses_ws' = expenses_ws
              /\ update'.handler = "add_salary"
                  => /\ expenses_ws' = expenses_ws
                     /\ IF AppendOkIn(store_log')
                        THEN Extends(salary_ws', salary_ws)
                        ELSE salary_ws' = salary_ws
              /\ update'.handler \in ReadOnlyHandlers
                  => expenses_ws' = expenses_ws /\ salary_ws' = salary_ws]_vars

C7_Witness ==
    /\ update.handler = "handle_message"
    /\ reply.kind = "expense_added"
    /\ Len(expenses_ws) = 2
    /\ expenses_ws[1] # expenses_ws[2]

\* The window a grouping command applies, decided on the row's own date fields.
InWindow(r, window, now) ==
    LET y == r.Date \div 10000
        m == (r.Date \div 100) % 100
        d == r.Date % 100
    IN  CASE window = "today" -> y = now.y /\ m = now.m /\ d = now.d
          [] window = "month" -> y = now.y /\ m = now.m
          [] window = "year" -> y = now.y
          [] window = "all" -> TRUE

WindowRows(window, now) ==
    {i \in DOMAIN expenses_ws : InWindow(expenses_ws[i], window, now)}

\* Per key, the sum of the amounts of exactly the window's rows with that key.
ExpectedGroups(col, window, now) ==
    LET idx == WindowRows(window, now)
    IN  [k \in {expenses_ws[i][col] : i \in idx} |->
            SumOver(expenses_ws, {i \in idx : expenses_ws[i][col] = k})]

Reverse(rows) == [i \in 1..Len(rows) |-> rows[Len(rows) + 1 - i]]

GroupingHandlers ==
    {"show_balance", "generate_report", "show_today_expenses", "payment_method_report"}

\* C8: the sums per key sent by /balance and /report (current month, current
\* year), /today (the day) and /payments (all time) are the sums of exactly the
\* window's expense rows with that key, whatever the row order; the totals are
\* the window's totals; an empty ledger gives no groups and no error.
C8_GroupSumsMatchWindow ==
    /\ reply.kind = "summary"
        => /\ reply.by_category = ExpectedGroups("Category", "month", update.now)
           /\ reply.by_payment = ExpectedGroups("Payment", "month", update.now)
    /\ reply.kind = "report"
        => /\ reply.by_category = ExpectedGroups("Category", "month", update.now)
           /\ reply.yearly_by_category = ExpectedGroups("Category", "year", update.now)
           /\ reply.monthly_total
                = SumOver(expenses_ws, WindowRows("month", update.now))
           /\ reply.yearly_total
                = SumOver(expenses_ws, WindowRows("year", update.now))
    /\ reply.kind = "today"
        => /\ reply.total = SumOver(expenses_ws, WindowRows("today", update.now))
           /\ Len(reply.rows) = Cardinality(WindowRows("today", update.now))
    /\ reply.kind = "no_today" => WindowRows("today", update.now) = {}
    /\ reply.kind = "payments"
        => reply.by_payment = ExpectedGroups("Payment", "all", update.now)
    /\ \A col \in {"Category", "Payment"} :
          /\ groupby_sum(Reverse(expenses_ws), col) = groupby_sum(expenses_ws, col)
          /\ groupby_sum(current_month_rows(Reverse(expenses_ws), update.now), col)
                = groupby_sum(current_month_rows(expenses_ws, update.now), col)
          /\ groupby_sum(current_year_rows(Reverse(expenses_ws), update.now), col)
                = groupby_sum(current_year_rows(expenses_ws, update.now), col)
    /\ (update.handler \in GroupingHandlers /\ expenses_ws = <<>>
            /\ NoStoreFault(store_log))
        => /\ reply.kind \in {"summary", "no_expenses"}
           /\ DOMAIN reply.by_category = {} /\ DOMAIN reply.by_payment = {}

\* A report sent in 2025 over a ledger that holds a row of May 2024: in the
\* month of the clock by its number, outside it by its year.
C8_Witness ==
    /\ reply.kind = "report"
    /\ update.now.y = 2025
    /\ \E i \in DOMAIN expenses_ws : expenses_ws[i].Date \div 100 = 202405
    /\ reply.yearly_total # reply.monthly_total

\* A token of exactly two numeric parts separated by one `/`.
DateShaped(tok) ==
    LET f == split_on(tok, "/")
    IN  Len(f) = 2 /\ all_digits(f[1]) /\ all_digits(f[2])

\* C9: a first token of two numeric parts around one `/` is consumed as the
\* DD/MM date of the current year; every other first token, one holding a `/`
\* between non-numeric parts included, leaves the date at today and becomes
\* the title-cased category.
C9_DateTokenOrCategory ==
    LET tokens == parse_payment(split(Lower(update.text))).parts
        first == tokens[1]
        last == expenses_ws[Len(expenses_ws)]
    IN  (update.handler = "handle_message" /\ NoStoreFault(store_log)
            /\ Len(tokens) >= 2)
        => IF DateShaped(first)
           THEN AppendOkIn(store_log)
                   => /\ last.Date % 10000
                           = 100 * digits_value(split_on(first, "/")[2])
                             + digits_value(split_on(first, "/")[1])
                      /\ last.Date \div 10000 = update.now.y
                      /\ last.Category = Title(tokens[2])
           ELSE is_number(tokens[2])
                   => /\ AppendOkIn(store_log)
                      /\ last.Date = strftime_iso(update.now)
                      /\ last.Category = Title(first)

\* C10: when the reply to an expense message or to /addsalary is an error
\* notice and not the success confirmation, no row was appended.
C10_ErrorReplyMeansNoRow ==
    (update.handler \in {"handle_message", "add_salary"}
        /\ reply.kind \notin SuccessReplies)
        => ~AppendOkIn(store_log)

====
